---- MODULE Spec2Model ----
(***************************************************************************)
(* TerminAI: the terminal-activity logger installed by `terminai init`     *)
(* (the shell script returned by create_logging_script), the Context       *)
(* Reader get_recent_commands_with_outputs of commands/init.py, the prompt *)
(* builder and handler of commands/debug.py, the handler of                *)
(* commands/ask.py with the AI provider of core/ai.py, the click commands  *)
(* of main.py in front of the handlers, and the log reader of              *)
(* core/context.py.                                                        *)
(*                                                                         *)
(* Text is modelled as a sequence of tokens.  A token is a string; the     *)
(* token "|" is the field separator, the token " " is white space, and no  *)
(* other token contains either.  A line of commands.log is a sequence of   *)
(* tokens, a file is a sequence of lines.  Shell variables hold strings,   *)
(* so numbers are written with ToString and read back with ParseInt.       *)
(***************************************************************************)
EXTENDS Integers, Sequences, FiniteSets, TLC

\* ------------------------------------------------------------------ bounds

\* Records one behaviour of the single-session specification appends.
MaxCmds == 7
\* Records one behaviour of the two-session specification appends.
MaxConcCmds == 3
\* Lines of a log file handed to the Context Reader.
MaxLines == 3
\* Lines of a log file handed to the rotation.
MaxRotLines == 6
\* Largest integer the model writes into an exit_code field.
MaxExit == 1
\* Ticks of the nanosecond clock per second of the wall clock.
TicksPerSecond == 2
\* Entries of the longest history handed to build_debug_prompt.
MaxHist == 3
\* Largest exit code of an entry handed to build_debug_prompt.
MaxCode == 2
\* Characters of the longest output handed to build_debug_prompt.
MaxOutput == 502
\* Recorder invocations one behaviour of the crash specification starts on a
\* full ring.
MaxCrashCmds == 2

\* ------------------------------------------------------- program constants

\* tail -n 5: the ring size N of the logger script.
RingSize == 5
\* limit: int = 5, the Context Reader's default.
DefaultLimit == 5
\* line.split('|', 3)
MaxSplit == 3
\* if len(parts) > 4, where >= 4 was meant.
MinPartsOffByOne == 4 + 1
\* if len(parts) >= 4
MinParts == 4

Sessions == {1, 2}

VARIABLES
    env,          \* fixed per behaviour: sessions, budget, faults, mode, and
                  \* denied, the output files that cannot be opened
    clock,        \* the system clock, in ticks
    seen,         \* per session: the last clock value its `date` returned
    hist,         \* per session: the last entry of the shell history
    term_output,  \* per session: the exported TERM_OUTPUT
    pc,           \* per session: the next step of terminai_log_command_output
    loc,          \* per session: the function's local variables
    log,          \* ~/.terminai/commands.log
    tmp,          \* ~/.terminai/commands.log.tmp
    outputs,      \* ~/.terminai/output_<id>.log: file id -> content
    appended,     \* history: the RingSize records appended last, oldest first
    count,        \* history: the number of Recorder invocations that logged
    ran,          \* history: in the prompt cycle started last the user ran a
                  \* command, and not one of this tool
    captured,     \* history: the file ids a blob was written for
    tail_ok,      \* history, per session: its last `tail` ended without error
    runs,         \* rotation driver: rotations started again
    once,         \* rotation driver: log and outputs after the first rotation
    start,        \* rotation driver: log and outputs before the first rotation
    limit,        \* Context Reader: its argument
    rpc,          \* Context Reader: "call" before it runs, "returned" after
    result,       \* Context Reader: what it returned
    read_lines,   \* Context Reader: `lines`, what readlines() gave it
    cli           \* the running terminai command: arguments, locals, position

vars == <<env, clock, seen, hist, term_output, pc, loc, log, tmp, outputs,
          appended, count, ran, captured, tail_ok, runs, once, start,
          limit, rpc, result, read_lines, cli>>

\* ------------------------------------------------------------------- text

Pipe == "|"
Space == " "

\* A file that does not exist, and a file holding the given lines.
NoFile == [present |-> FALSE, lines |-> <<>>]
File(ls) == [present |-> TRUE, lines |-> ls]

RECURSIVE Reverse(_)
Reverse(s) == IF s = <<>> THEN <<>> ELSE Append(Reverse(Tail(s)), Head(s))

\* commands[:limit]
Take(s, n) == SubSeq(s, 1, IF n < Len(s) THEN n ELSE Len(s))

\* str.strip(): drops the white space at both ends.
RECURSIVE LStrip(_)
LStrip(s) == IF s # <<>> /\ Head(s) = Space THEN LStrip(Tail(s)) ELSE s
Strip(s) == Reverse(LStrip(Reverse(LStrip(s))))

\* The position of the first separator of s, 0 when it has none.
FirstPipe(s) ==
    IF \E i \in 1..Len(s) : s[i] = Pipe
    THEN CHOOSE i \in 1..Len(s) : s[i] = Pipe /\ \A j \in 1..(i - 1) : s[j] # Pipe
    ELSE 0

\* str.split('|', maxsplit)
RECURSIVE Split(_, _)
Split(s, maxsplit) ==
    IF maxsplit = 0 \/ FirstPipe(s) = 0
    THEN <<s>>
    ELSE <<SubSeq(s, 1, FirstPipe(s) - 1)>>
         \o Split(SubSeq(s, FirstPipe(s) + 1, Len(s)), maxsplit - 1)

\* int(x): defined on one token of digits, white space around it ignored.
IsInt(field) ==
    /\ Len(Strip(field)) = 1
    /\ \E i \in 0..MaxExit : ToString(i) = Strip(field)[1]
ParseInt(field) == CHOOSE i \in 0..MaxExit : ToString(i) = Strip(field)[1]

\* Whether pat occurs in line (grep of a fixed string).
Contains(line, pat) ==
    \E i \in 1..(Len(line) - Len(pat) + 1) : SubSeq(line, i, i + Len(pat) - 1) = pat

\* ---------------------------------------------- the logger script (bash)

\* What the user may type at a prompt: nothing (an empty Enter), a plain
\* command, a command of this tool, or a pipeline that quotes the id of the
\* oldest record of commands.log between two '|'.
PlainText == <<"ls">>
SelfText == <<"terminai", Space, "ask">>
QuoteText(fid) == <<"grep", Pipe>> \o fid \o <<Pipe, "wc">>
OldestId ==
    IF log.lines # <<>> /\ Len(Split(log.lines[1], MaxSplit)) >= MinParts
    THEN {Split(log.lines[1], MaxSplit)[3]}
    ELSE {}
SpacedSelfText == <<Space>> \o SelfText
Typed ==
    {<<>>, PlainText, SelfText, SpacedSelfText}
        \cup {QuoteText(fid) : fid \in OldestId}

\* history 1: the last entry behind its number, nothing when there is none.
HistNo == "501"
HistoryOne(entry) ==
    IF entry = <<>> THEN <<>> ELSE <<Space, Space, HistNo, Space, Space>> \o entry

\* sed 's/^[ ]*[0-9]*[ ]*//': drops the leading blanks, one run of digits and
\* the blanks behind it.
Sed(line) ==
    LET unnumbered == IF LStrip(line) # <<>> /\ Head(LStrip(line)) = HistNo
                      THEN Tail(LStrip(line))
                      ELSE LStrip(line)
    IN  LStrip(unnumbered)

\* What the terminal answers to the cursor-position probe of
\* terminai_capture_output: nothing, or the cursor column.
TermReplies == {<<>>, <<"24">>}

\* [[ $cmd != terminai* ]] fails: the text begins with "terminai".
SelfWords == {"terminai", "terminai-dev"}

\* [[ $cmd != terminai ]], where the pattern terminai* was meant.
IsSelfExact(cmd) == cmd = <<"terminai">>

\* [[ $cmd == terminai* ]], where != was meant: the commands of the tool are
\* the ones logged.
IsSelfInverted(cmd) == ~(cmd # <<>> /\ Head(cmd) \in SelfWords)

IsSelf(cmd) == cmd # <<>> /\ Head(cmd) \in SelfWords

\* The status terminai_capture_output returns: that of its `if`, whose only
\* branch ends with `export`, so 0 on every path.  It is what $? holds when
\* terminai_log_command_output starts, whatever the user's command returned.
CaptureStatus == 0

\* date +%s%N: a session's successive readings increase; two sessions may
\* read the same instant.
ClockReads(s) == {t \in {clock, clock + 1} : t > seen[s]}

\* date '+%Y-%m-%d %H:%M:%S': the clock at second resolution.
Stamp(t) == ToString(t \div TicksPerSecond)

NoLocals == [timestamp |-> "", exit_code |-> "", cmd_id |-> "", cmd |-> <<>>]

\* "${timestamp}|${exit_code}|${cmd_id}|${cmd}"
Format(l) == <<l.timestamp, Pipe, l.exit_code, Pipe, l.cmd_id, Pipe>> \o l.cmd

\* head -n n, where tail -n n was meant.
HeadN(lines, n) == SubSeq(lines, 1, IF Len(lines) > n THEN n ELSE Len(lines))

\* tail -n +2, where tail -n n was meant.
DropFirst(lines, n) == SubSeq(lines, 2, Len(lines))

\* tail -n (n + 1), where tail -n n was meant.
TailOneMore(lines, n) ==
    SubSeq(lines, IF Len(lines) > n + 1 THEN Len(lines) - n ELSE 1, Len(lines))

\* tail -n n
TailN(lines, n) ==
    SubSeq(lines, IF Len(lines) > n THEN Len(lines) - n + 1 ELSE 1, Len(lines))

\* tail -n 5 commands.log > commands.log.tmp: the shell creates or truncates
\* the temp file, then tail copies the last lines.  When commands.log is
\* missing, or on an I/O error, tail stops early and leaves in the temp file
\* what it had written: a proper prefix of the lines, possibly nothing.
TailOutcomes(f, faulty) ==
    LET kept == TailN(f.lines, RingSize)
    IN  {[ok |-> TRUE, file |-> File(kept)] : x \in {y \in {1} : f.present}}
        \cup {[ok |-> FALSE, file |-> File(SubSeq(kept, 1, k))] :
                k \in {j \in 0..Len(kept) :
                         /\ faulty \/ ~f.present
                         /\ j = 0 \/ j < Len(kept)}}

\* The name of output_<id>.log, as sed extracts it in the clean-up loop.
FileId(cmd_id) == <<cmd_id>>

\* if grep -q ..., where if ! grep -q ... was meant: the files of the
\* retained records are the ones removed.
GrepNegated(fid, f) ==
    ~(/\ f.present
      /\ \E i \in 1..Len(f.lines) :
            Contains(f.lines[i], <<Pipe>> \o fid \o <<Pipe>>))

\* grep -q "|$file_id|" commands.log
Grep(fid, f) ==
    /\ f.present
    /\ \E i \in 1..Len(f.lines) : Contains(f.lines[i], <<Pipe>> \o fid \o <<Pipe>>)

\* The output files the clean-up loop leaves.
Kept(files, f) == {fid \in files : Grep(fid, f)}

\* history: the window of the records appended last.
Window(ls) == IF Len(ls) > RingSize THEN Tail(ls) ELSE ls

\* One prompt cycle up to the filter: the user typed `typed` (one line; an
\* empty Enter leaves the history as it was) and the command ended with
\* `status`; PROMPT_COMMAND runs terminai_capture_output, then
\* terminai_log_command_output reads $?, `history 1` (the last entry, as in
\* bash) and the clock.  `status` never reaches the record: $? is
\* CaptureStatus by then.  These steps touch no file and are one step here.
Hook(s) ==
    /\ env.mode = "shell"
    /\ s \in env.sessions
    /\ pc[s] = "idle"
    /\ count < env.budget
    /\ \E typed \in Typed, status \in 0..MaxExit, reply \in TermReplies,
          t \in ClockReads(s) :
         LET entry == IF typed = <<>> THEN hist[s] ELSE typed
             cmd == Sed(HistoryOne(entry))
         IN  /\ hist' = [hist EXCEPT ![s] = entry]
             /\ term_output' = [term_output EXCEPT
                    ![s] = IF ~IsSelf(cmd) /\ cmd # <<>> THEN reply ELSE @]
             /\ ran' = (typed # <<>> /\ ~IsSelf(cmd))
             /\ IF ~IsSelf(cmd)
                THEN /\ loc' = [loc EXCEPT ![s] =
                            [timestamp |-> Stamp(clock),
                             exit_code |-> ToString(CaptureStatus),
                             cmd_id |-> ToString(t),
                             cmd |-> cmd]]
                     /\ clock' = t
                     /\ seen' = [seen EXCEPT ![s] = t]
                     /\ count' = count + 1
                     /\ pc' = [pc EXCEPT ![s] = "append"]
                ELSE UNCHANGED <<loc, clock, seen, count, pc>>
    /\ UNCHANGED <<env, log, tmp, outputs, appended, captured, tail_ok, runs,
                   once, start, limit, rpc, result,
                   read_lines, cli>>

\* echo "..." >> ~/.terminai/commands.log
AppendRecord(s) ==
    /\ pc[s] = "append"
    /\ log' = File(Append(log.lines, Format(loc[s])))
    /\ appended' = Window(Append(appended, loc[s]))
    /\ pc' = [pc EXCEPT ![s] = "tail"]
    /\ UNCHANGED <<env, clock, seen, hist, term_output, loc, tmp, outputs, count,
                   captured, tail_ok, runs, once, start, limit, rpc, result,
                   read_lines, cli, ran>>

\* tail -n 5 ~/.terminai/commands.log > ~/.terminai/commands.log.tmp
\* (creating the temp file and filling it are one step here)
TailToTmp(s) ==
    /\ pc[s] = "tail"
    /\ \E o \in TailOutcomes(log, env.faults) :
         /\ tmp' = o.file
         /\ tail_ok' = [tail_ok EXCEPT ![s] = o.ok]
    /\ pc' = [pc EXCEPT ![s] = "mv"]
    /\ UNCHANGED <<env, clock, seen, hist, term_output, loc, log, outputs,
                   appended, count, captured, runs, once, start, limit, rpc,
                   result,
                   read_lines, cli, ran>>

\* mv ~/.terminai/commands.log.tmp ~/.terminai/commands.log, whatever tail
\* returned; mv fails and changes nothing when the temp file is gone.
MoveTmp(s) ==
    /\ pc[s] = "mv"
    /\ IF tmp.present
       THEN log' = tmp /\ tmp' = NoFile
       ELSE UNCHANGED <<log, tmp>>
    /\ pc' = [pc EXCEPT ![s] = "blob"]
    /\ UNCHANGED <<env, clock, seen, hist, term_output, loc, outputs, appended,
                   count, captured, tail_ok, runs, once, start, limit, rpc,
                   result,
                   read_lines, cli, ran>>

\* if [ -n "$TERM_OUTPUT" ]; then echo "$TERM_OUTPUT" | tail -n 50 >
\* output_${cmd_id}.log; unset TERM_OUTPUT; fi   (the same in bash and zsh)
WriteOutput(s) ==
    /\ pc[s] = "blob"
    /\ IF term_output[s] # <<>>
       THEN /\ outputs' = [fid \in DOMAIN outputs \cup {FileId(loc[s].cmd_id)} |->
                             IF fid = FileId(loc[s].cmd_id)
                             THEN term_output[s] ELSE outputs[fid]]
            /\ captured' = captured \cup {FileId(loc[s].cmd_id)}
            /\ term_output' = [term_output EXCEPT ![s] = <<>>]
       ELSE UNCHANGED <<outputs, captured, term_output>>
    /\ pc' = [pc EXCEPT ![s] = "gc"]
    /\ UNCHANGED <<env, clock, seen, hist, loc, log, tmp, appended, count,
                   tail_ok, runs, once, start, limit, rpc, result,
                   read_lines, cli, ran>>

\* for output_file in ~/.terminai/output_*.log: rm it unless grep finds its
\* id in commands.log.  The loop is one step here.  The function returns and
\* its locals go out of scope.
CleanOutputs(s) ==
    /\ pc[s] = "gc"
    /\ outputs' = [fid \in Kept(DOMAIN outputs, log) |-> outputs[fid]]
    /\ pc' = [pc EXCEPT ![s] = "idle"]
    /\ loc' = [loc EXCEPT ![s] = NoLocals]
    /\ UNCHANGED <<env, clock, seen, hist, term_output, log, tmp, appended,
                   count, captured, tail_ok, runs, once, start, limit, rpc,
                   result,
                   read_lines, cli, ran>>

\* --------------------------------- the Context Reader (commands/init.py)

\* The dict the first loop appends to `commands`.
ParsedLine(parts) ==
    [timestamp |-> parts[1], exit_code |-> ParseInt(parts[2]),
     cmd_id |-> parts[3], command |-> parts[4]]

\* for line in lines: strip, skip when blank, split, skip when fewer than four
\* parts, int() the exit code.  int() raises ValueError on anything else
\* than an integer, and nothing catches it inside the loop.
RECURSIVE ParseLines(_, _)
ParseLines(lines, commands) ==
    IF lines = <<>>
    THEN [raised |-> FALSE, commands |-> commands]
    ELSE LET line == Strip(Head(lines))
             parts == Split(line, MaxSplit)
         IN  IF line # <<>> /\ Len(parts) >= MinParts
             THEN IF IsInt(parts[2])
                  THEN ParseLines(Tail(lines), Append(commands, ParsedLine(parts)))
                  ELSE [raised |-> TRUE, commands |-> commands]
             ELSE ParseLines(Tail(lines), commands)

\* output_file.exists() and open(output_file, 'r') succeeds; when open or
\* read raises, the inner except passes.
Readable(fid, files) == fid \in DOMAIN files /\ fid \notin env.denied

\* if output_text.strip():
HasText(fid, files) == Readable(fid, files) /\ Strip(files[fid]) # <<>>

\* result["has_outputs"] = True right after output_file.exists(), where it
\* belongs behind the test of the text.
SetsFlagOnExists(fid, files) == fid \in DOMAIN files

\* result["has_outputs"] = True, next to cmd_entry["output"] = ...
SetsFlag(fid, files) == HasText(fid, files)

\* for cmd in reversed(commands[:limit]): build cmd_entry, attach the output
\* of output_<cmd_id>.log when the file exists, can be read and is not blank.
RECURSIVE Attach(_, _, _)
Attach(cmds, files, res) ==
    IF cmds = <<>>
    THEN res
    ELSE LET cmd == Head(cmds)
             found == HasText(cmd.cmd_id, files)
             entry == IF found
                      THEN [timestamp |-> cmd.timestamp, command |-> cmd.command,
                            exit_code |-> cmd.exit_code,
                            output |-> Strip(files[cmd.cmd_id])]
                      ELSE [timestamp |-> cmd.timestamp, command |-> cmd.command,
                            exit_code |-> cmd.exit_code]
         IN  Attach(Tail(cmds), files,
                    [res EXCEPT !.commands = Append(@, entry),
                                !.has_outputs = @ \/ SetsFlag(cmd.cmd_id, files)])

\* The slice the second loop walks.
Selected(commands, lim) == Reverse(Take(commands, lim))

NoResult == [commands |-> <<>>, has_outputs |-> FALSE, error |-> FALSE]

\* get_recent_commands_with_outputs(limit); `error` records that the outer
\* except printed "Error reading command history" and returned `result`.
GetRecentCommands(f, files, lim) ==
    IF ~f.present
    THEN NoResult
    ELSE IF ParseLines(f.lines, <<>>).raised
         THEN [NoResult EXCEPT !.error = TRUE]
         ELSE Attach(Selected(ParseLines(f.lines, <<>>).commands, lim), files,
                     NoResult)

\* ------------------------- the prompt of terminai debug (commands/debug.py)

\* No terminai command is running.
NoCli == [pc |-> "none"]

\* dict.get(key): the value, or nothing when the key is absent; a text is
\* truthy when it is not empty.
Get(d, key) == IF key \in DOMAIN d THEN d[key] ELSE <<>>

\* len(output) > 500, output[:500]
OutputBudget == 500
Marker == "... (truncated)"

\* if len(output) >= 500, where > 500 was meant.
TruncatedFrom500(output) ==
    IF Len(output) >= 500
    THEN SubSeq(output, 1, 500) \o <<"... (truncated)">>
    ELSE output

\* if len(output) > 500: output = output[:500] + "... (truncated)"
Truncated(output) ==
    IF Len(output) > OutputBudget
    THEN SubSeq(output, 1, OutputBudget) \o <<Marker>>
    ELSE output

\* The pieces of text build_debug_prompt puts together; the back quote of
\* the source is written as ' here.
AutoCore == "I need you to analyze my recent terminal activity."
DirectedOpen == "I received this error in my terminal: \""
DirectedClose == "\" Please explain:"
SystemHead == "\n\nSystem information:"
OsLabel == "\n- Operating System: "
ShellLabel == "\n- Shell: "
DirLabel == "\n- Current Directory: "
HistoryHead == "\n\nRecent commands and their outputs:\n"
UnknownTime == "Unknown time"
Success == "[SUCCESS]"
FailedOpen == "[FAILED] (exit code: "
OutputOpen == "   Output:\n   '''\n   "
OutputClose == "\n   '''\n"
AutoClose == "\nPlease analyze these recent commands and their outputs"
DirectedEnd == "\nPlease analyze the error in the context of these recent commands"

\* if auto_mode: prompt = """...""" else: prompt = f"""...{error_message}..."""
CorePrompt(error_message, auto_mode) ==
    IF auto_mode
    THEN <<AutoCore>>
    ELSE <<DirectedOpen>> \o error_message \o <<DirectedClose>>

\* if context.get("os") or context.get("shell"): the block, with the line of
\* current_dir inside it.
SystemBlock(context) ==
    IF Get(context, "os") # <<>> \/ Get(context, "shell") # <<>>
    THEN <<SystemHead>>
         \o (IF Get(context, "os") # <<>>
             THEN <<OsLabel>> \o context["os"] ELSE <<>>)
         \o (IF Get(context, "shell") # <<>>
             THEN <<ShellLabel>> \o context["shell"] ELSE <<>>)
         \o (IF Get(context, "current_dir") # <<>>
             THEN <<DirLabel>> \o context["current_dir"] ELSE <<>>)
    ELSE <<>>

\* {i}, where {i+1} was meant.
NumberFromZero(i) == ToString(i)

\* {i+1}
Number(i) == ToString(i + 1)

\* cmd_line, with the status when the entry has an exit code, and the fenced
\* output when the entry has one; i counts from 0 as enumerate does.
CommandLines(cmd, i) ==
    <<Number(i), ". [">>
    \o (IF "timestamp" \in DOMAIN cmd THEN cmd.timestamp ELSE <<UnknownTime>>)
    \o <<"] '">> \o cmd.command \o <<"'">>
    \o (IF "exit_code" \in DOMAIN cmd
        THEN IF cmd.exit_code = 0
             THEN <<Space, Success>>
             ELSE <<Space, FailedOpen, ToString(cmd.exit_code), ")">>
        ELSE <<>>)
    \o <<"\n">>
    \o (IF "output" \in DOMAIN cmd /\ cmd.output # <<>>
        THEN <<OutputOpen>> \o Truncated(cmd.output) \o <<OutputClose>>
        ELSE <<>>)

\* for i, cmd in enumerate(context["recent_commands"]):
RECURSIVE HistoryLines(_, _)
HistoryLines(cmds, i) ==
    IF cmds = <<>> THEN <<>>
    ELSE CommandLines(Head(cmds), i) \o HistoryLines(Tail(cmds), i + 1)

\* if "recent_commands" in context and context["recent_commands"]:
HistoryBlock(context, auto_mode) ==
    IF "recent_commands" \in DOMAIN context /\ context["recent_commands"] # <<>>
    THEN <<HistoryHead>> \o HistoryLines(context["recent_commands"], 0)
         \o <<IF auto_mode THEN AutoClose ELSE DirectedEnd>>
    ELSE <<>>

\* build_debug_prompt(error_message, context, auto_mode)
build_debug_prompt(error_message, context, auto_mode) ==
    CorePrompt(error_message, auto_mode)
    \o SystemBlock(context)
    \o HistoryBlock(context, auto_mode)

\* ------------------------------------------------------ specifications

Quiet ==
    /\ clock = 0
    /\ seen = [s \in Sessions |-> 0]
    /\ hist = [s \in Sessions |-> <<>>]
    /\ term_output = [s \in Sessions |-> <<>>]
    /\ loc = [s \in Sessions |-> NoLocals]
    /\ tmp = NoFile
    /\ appended = <<>>
    /\ count = 0
    /\ ran = FALSE
    /\ captured = {}
    /\ tail_ok = [s \in Sessions |-> TRUE]
    /\ runs = 0
    /\ rpc = "call"
    /\ result = NoResult
    /\ read_lines = <<>>

Rest == Quiet /\ cli = NoCli

\* One terminal session, a fresh ~/.terminai directory.
Init ==
    /\ env = [sessions |-> {1}, budget |-> MaxCmds, faults |-> FALSE,
              mode |-> "shell",
              denied |-> {}]
    /\ pc = [s \in Sessions |-> "idle"]
    /\ log = NoFile
    /\ outputs = <<>>
    /\ once = [log |-> NoFile, outputs |-> <<>>]
    /\ start = [log |-> NoFile, outputs |-> <<>>]
    /\ limit = DefaultLimit
    /\ Rest

Logger ==
    \E s \in Sessions :
        \/ Hook(s)
        \/ AppendRecord(s)
        \/ TailToTmp(s)
        \/ MoveTmp(s)
        \/ WriteOutput(s)
        \/ CleanOutputs(s)

Next == Logger

Spec == Init /\ [][Next]_vars

\* Two terminal sessions, a fresh ~/.terminai directory.
InitConc ==
    /\ env = [sessions |-> {1, 2}, budget |-> MaxConcCmds, faults |-> FALSE,
              mode |-> "shell",
              denied |-> {}]
    /\ pc = [s \in Sessions |-> "idle"]
    /\ log = NoFile
    /\ outputs = <<>>
    /\ once = [log |-> NoFile, outputs |-> <<>>]
    /\ start = [log |-> NoFile, outputs |-> <<>>]
    /\ limit = DefaultLimit
    /\ Rest

SpecConc == InitConc /\ [][Next]_vars

\* The lines a log file is drawn from, by position i in the file: the id of
\* the record on line i is i.
LineKinds == {"ok", "failed", "piped", "quoting", "blank", "spaces", "short",
              "badexit"}
Line(kind, i) ==
    CASE kind = "ok" -> <<Stamp(i), Pipe, "0", Pipe, ToString(i), Pipe, "ls">>
      [] kind = "failed" ->
            <<Space, Stamp(i), Pipe, "1", Pipe, ToString(i), Pipe, "make">>
      [] kind = "piped" ->
            <<Stamp(i), Pipe, "0", Pipe, ToString(i), Pipe, "ls", Pipe, "wc">>
      [] kind = "quoting" ->
            <<Stamp(i), Pipe, "0", Pipe, ToString(i), Pipe>> \o QuoteText(<<"1">>)
      [] kind = "blank" -> <<>>
      [] kind = "spaces" -> <<Space>>
      [] kind = "short" -> <<Stamp(i), Pipe, "0", Pipe, ToString(i)>>
      [] kind = "badexit" ->
            <<Stamp(i), Pipe, "x", Pipe, ToString(i), Pipe, "ls">>
LogsOf(kinds, maxlen) ==
    {NoFile} \cup
    UNION {{File([i \in 1..n |-> Line(k[i], i)]) : k \in [1..n -> kinds]} :
             n \in 0..maxlen}
OutputsOf(ids) ==
    UNION {{[fid \in have |-> <<"24">>]} : have \in SUBSET ids}

\* ---- the rotation on its own: tail, mv and the clean-up loop, run twice on
\* a log and an output store of any content.
RotateKinds == {"ok", "quoting", "blank"}

InitRotateWith(faulty) ==
    /\ env = [sessions |-> {1}, budget |-> 0, faults |-> faulty,
              mode |-> "rotate",
              denied |-> {}]
    /\ pc = [s \in Sessions |-> IF s = 1 THEN "tail" ELSE "idle"]
    /\ log \in LogsOf(RotateKinds, MaxRotLines)
    /\ outputs \in OutputsOf({<<"1">>, <<"2">>, <<ToString(MaxRotLines)>>})
    /\ once = [log |-> NoFile, outputs |-> <<>>]
    /\ start = [log |-> log, outputs |-> outputs]
    /\ limit = DefaultLimit
    /\ Rest

RotateAgain ==
    /\ env.mode = "rotate"
    /\ pc[1] = "idle"
    /\ runs = 0
    /\ runs' = 1
    /\ once' = [log |-> log, outputs |-> outputs]
    /\ pc' = [pc EXCEPT ![1] = "tail"]
    /\ UNCHANGED <<env, clock, seen, hist, term_output, loc, log, tmp, outputs,
                   appended, count, captured, tail_ok, start, limit, rpc,
                   result,
                   read_lines, cli, ran>>

NextRotate ==
    \/ TailToTmp(1)
    \/ MoveTmp(1)
    \/ WriteOutput(1)
    \/ CleanOutputs(1)
    \/ RotateAgain

InitRotate == InitRotateWith(FALSE)
SpecRotate == InitRotate /\ [][NextRotate]_vars

InitRotateFault == InitRotateWith(TRUE)
SpecRotateFault == InitRotateFault /\ [][NextRotate]_vars

\* ---- the Context Reader on its own, on a log of any content.
ReadKinds == LineKinds \ {"quoting"}

InitRead ==
    /\ env = [sessions |-> {}, budget |-> 0, faults |-> FALSE, mode |-> "read",
              denied |-> {}]
    /\ pc = [s \in Sessions |-> "idle"]
    /\ log \in LogsOf(ReadKinds, MaxLines)
    /\ outputs \in OutputsOf({<<"1">>})
    /\ once = [log |-> NoFile, outputs |-> <<>>]
    /\ start = [log |-> NoFile, outputs |-> <<>>]
    /\ limit \in 0..(MaxLines + 1)
    /\ Rest

ReadHistory ==
    /\ env.mode = "read"
    /\ rpc = "call"
    /\ result' = GetRecentCommands(log, outputs, limit)
    /\ rpc' = "returned"
    /\ UNCHANGED <<env, clock, seen, hist, term_output, pc, loc, log, tmp,
                   outputs, appended, count, captured, tail_ok, runs, once,
                   start, limit, read_lines, cli, ran>>

NextRead == ReadHistory

SpecRead == InitRead /\ [][NextRead]_vars

\* ---- the Context Reader on output files present, absent, blank or
\* unreadable.
BlobKinds == {"ok", "failed", "short"}
BlobIds == {<<"1">>, <<"2">>}
BlobTexts == {<<"24">>, <<Space>>}

InitBlobs ==
    /\ env \in {[sessions |-> {}, budget |-> 0, faults |-> FALSE,
                 mode |-> "read", denied |-> d] : d \in SUBSET BlobIds}
    /\ pc = [s \in Sessions |-> "idle"]
    /\ log \in LogsOf(BlobKinds, MaxLines)
    /\ outputs \in UNION {[have -> BlobTexts] : have \in SUBSET BlobIds}
    /\ once = [log |-> NoFile, outputs |-> <<>>]
    /\ start = [log |-> NoFile, outputs |-> <<>>]
    /\ limit \in 0..(MaxLines + 1)
    /\ Rest

SpecBlobs == InitBlobs /\ [][NextRead]_vars

\* ---- the log reader of core/context.py, on a log of any content.

\* timestamp, exit_code_str, cmd_id, command = parts: the number of names.
Targets == 4

NoParts == [bound |-> FALSE, parts |-> <<>>]

\* for line in lines: strip, continue when blank, parts = line.split('|', 3),
\* continue when fewer than four parts.  Nothing else is in the loop: what it
\* leaves is `parts`, the split of the last line that is not blank, or no
\* binding at all when every line is blank.
RECURSIVE LoopLines(_, _)
LoopLines(lines, parts) ==
    IF lines = <<>>
    THEN parts
    ELSE LET line == Strip(Head(lines))
         IN  LoopLines(Tail(lines),
                       IF line = <<>>
                       THEN parts
                       ELSE [bound |-> TRUE, parts |-> Split(line, MaxSplit)])

\* cmd_entry: command and timestamp, the exit code when int() takes it, the
\* text of output_<cmd_id>.log, as read, when the file exists and can be read.
ContextEntry(parts, files) ==
    LET coded == IsInt(parts[2])
        found == Readable(parts[3], files)
    IN  CASE coded /\ found ->
                [command |-> parts[4], timestamp |-> parts[1],
                 exit_code |-> ParseInt(parts[2]), output |-> files[parts[3]]]
          [] coded /\ ~found ->
                [command |-> parts[4], timestamp |-> parts[1],
                 exit_code |-> ParseInt(parts[2])]
          [] ~coded /\ found ->
                [command |-> parts[4], timestamp |-> parts[1],
                 output |-> files[parts[3]]]
          [] OTHER -> [command |-> parts[4], timestamp |-> parts[1]]

\* get_recent_commands_with_outputs() of core/context.py: after the loop the
\* four names are unpacked from `parts` once, and one entry is appended.  An
\* unbound `parts` or one of fewer than four parts raises; the except returns
\* the empty result with the error.
get_recent_commands_with_outputs(f, files) ==
    IF ~f.present
    THEN NoResult
    ELSE LET left == LoopLines(f.lines, NoParts)
         IN  IF ~left.bound \/ Len(left.parts) # Targets
             THEN [NoResult EXCEPT !.error = TRUE]
             ELSE [commands |-> <<ContextEntry(left.parts, files)>>,
                   has_outputs |-> Readable(left.parts[3], files),
                   error |-> FALSE]

InitContext ==
    /\ env = [sessions |-> {}, budget |-> 0, faults |-> FALSE,
              mode |-> "context", denied |-> {}]
    /\ pc = [s \in Sessions |-> "idle"]
    /\ log \in LogsOf(ReadKinds, MaxLines)
    /\ outputs \in OutputsOf({<<"1">>, <<ToString(MaxLines)>>})
    /\ once = [log |-> NoFile, outputs |-> <<>>]
    /\ start = [log |-> NoFile, outputs |-> <<>>]
    /\ limit = DefaultLimit
    /\ Rest

ReadContext ==
    /\ env.mode = "context"
    /\ rpc = "call"
    /\ result' = get_recent_commands_with_outputs(log, outputs)
    /\ rpc' = "returned"
    /\ UNCHANGED <<env, clock, seen, hist, term_output, pc, loc, log, tmp,
                   outputs, appended, count, captured, tail_ok, runs, once,
                   start, limit, read_lines, cli, ran>>

NextContext == ReadContext

SpecContext == InitContext /\ [][NextContext]_vars

\* ---- build_debug_prompt on its own.

\* A text of n characters.
Chars(n) == [i \in 1..n |-> ToString(i % 10)]

\* The entries of a history: what the Context Reader returns, with or
\* without an output.
Entry(stamp, text, code) ==
    [timestamp |-> <<stamp>>, command |-> <<text>>, exit_code |-> code]
EntryWith(stamp, text, code, output) ==
    [timestamp |-> <<stamp>>, command |-> <<text>>, exit_code |-> code,
     output |-> output]

OffLine ==
    /\ env = [sessions |-> {}, budget |-> 0, faults |-> FALSE, mode |-> "prompt",
              denied |-> {}]
    /\ pc = [s \in Sessions |-> "idle"]
    /\ log = NoFile
    /\ outputs = <<>>
    /\ once = [log |-> NoFile, outputs |-> <<>>]
    /\ start = [log |-> NoFile, outputs |-> <<>>]
    /\ limit = DefaultLimit
    /\ Quiet

\* A history of two entries, the second with an output of any length up to
\* MaxOutput.
InitTrunc ==
    /\ OffLine
    /\ \E n \in 0..MaxOutput, auto \in BOOLEAN :
         cli = [pc |-> "build",
                error_message |-> <<"permission denied">>,
                auto_mode |-> auto,
                context |-> [os |-> <<"Linux">>,
                             recent_commands |->
                                <<Entry("10:02", "make", 2),
                                  EntryWith("10:01", "ls", 0, Chars(n))>>],
                prompt |-> <<>>]

BuildPrompt ==
    /\ cli.pc = "build"
    /\ cli' = [cli EXCEPT
                 !.prompt = build_debug_prompt(cli.error_message, cli.context,
                                               cli.auto_mode),
                 !.pc = "built"]
    /\ UNCHANGED <<env, clock, seen, hist, term_output, pc, loc, log, tmp,
                   outputs, appended, count, captured, tail_ok, runs, once,
                   start, limit, rpc, result, read_lines, ran>>

NextPrompt == BuildPrompt

\* The context fields of the system-information block, and a value for each.
SystemFields == {"os", "shell", "current_dir"}
FieldValue(field) ==
    CASE field = "os" -> <<"Linux">>
      [] field = "shell" -> <<"/bin/bash">>
      [] field = "current_dir" -> <<"/home/u">>

\* The histories of up to MaxHist entries, newest first: entry k was logged
\* at MaxHist - k, ended with any exit code up to MaxCode, and has an output
\* or none.
EntryAt(k, code, captured_output) ==
    IF captured_output
    THEN EntryWith(ToString(MaxHist - k), IF code = 0 THEN "ls" ELSE "make",
                   code, <<"24">>)
    ELSE Entry(ToString(MaxHist - k), IF code = 0 THEN "ls" ELSE "make", code)
Histories ==
    UNION {{[k \in 1..n |-> EntryAt(k, codes[k], outs[k])] :
              codes \in [1..n -> 0..MaxCode], outs \in [1..n -> BOOLEAN]} :
             n \in 0..MaxHist}

\* Every combination of the system fields, with a history or without the
\* key recent_commands.
PromptContexts ==
    {[f \in have |-> FieldValue(f)] : have \in SUBSET SystemFields}
        \cup {[f \in have \cup {"recent_commands"} |->
                 IF f = "recent_commands" THEN h ELSE FieldValue(f)] :
                have \in SUBSET SystemFields, h \in Histories}

InitPrompt ==
    /\ OffLine
    /\ \E context \in PromptContexts, auto \in BOOLEAN :
         cli = [pc |-> "build",
                error_message |-> <<"permission denied">>,
                auto_mode |-> auto,
                context |-> context,
                prompt |-> <<>>]

SpecPrompt == InitPrompt /\ [][NextPrompt]_vars

SpecTrunc == InitTrunc /\ [][NextPrompt]_vars

\* ---- terminai debug: handle_debug_command step by step.

\* What get_terminal_context returns: the four fields, or the error entry
\* when one of the probes raised.
TermContexts ==
    {[os |-> <<"Linux">>, shell |-> <<"/bin/bash">>,
      current_dir |-> <<"/home/u">>, username |-> <<"u">>],
     [error |-> <<"Failed to get context information">>]}

\* The messages the handlers print.
NoHistoryNotice == "No recent command history found."
UsageNotice == "Please provide an error message to analyze."
AnalyzingError == "Analyzing error:"
AnalysisFailed == "Error during analysis:"
AnalysisTitle == "Terminal Analysis:"
CommandFailed == "Command failed: "
GeneralReview == "Explain what these recent commands are doing"

\* generate_ai_response(prompt, context) takes no command_type: the call of
\* line 80 raises TypeError before any provider is built.
UnexpectedKeyword == "got an unexpected keyword argument 'command_type'"

\* if cmd.get("exit_code", 0) != 0: the entries it holds for, by position.
Failing(commands) ==
    {k \in 1..Len(commands) :
       "exit_code" \in DOMAIN commands[k] /\ commands[k].exit_code # 0}

\* for cmd in history_data["commands"]: the first entry that failed gives the
\* message unless one was given; without a failed entry the message is the
\* general review, given or not.
AutoMessage(error_message, commands) ==
    IF Failing(commands) # {}
    THEN IF error_message = <<>>
         THEN <<CommandFailed>>
              \o commands[CHOOSE k \in Failing(commands) :
                            \A j \in Failing(commands) : k <= j].command
         ELSE error_message
    ELSE <<GeneralReview>>

\* def handle_debug_command(error_message=None, include_context=False,
\* auto_analyse=False): the handler entered with these arguments by the
\* command line argv. `passed` holds the arguments of its call of
\* generate_ai_response.
handle_debug_command(argv, error_message, include_context, auto_analyse) ==
    [pc |-> "history",
     argv |-> argv,
     args |-> [error_message |-> error_message,
               include_context |-> include_context,
               auto_analyse |-> auto_analyse],
     error_message |-> error_message,
     history_data |-> [commands |-> <<>>, has_outputs |-> FALSE],
     context |-> <<>>,
     prompt |-> <<>>,
     passed |-> <<>>,
     printed |-> <<>>]

InitDebug ==
    /\ env = [sessions |-> {}, budget |-> 0, faults |-> FALSE, mode |-> "debug",
              denied |-> {}]
    /\ pc = [s \in Sessions |-> "idle"]
    /\ log \in LogsOf({"ok", "failed"}, MaxLines)
    /\ outputs \in OutputsOf({<<"1">>})
    /\ once = [log |-> NoFile, outputs |-> <<>>]
    /\ start = [log |-> NoFile, outputs |-> <<>>]
    /\ limit = DefaultLimit
    /\ Quiet
    /\ \E given \in {<<>>, <<"permission denied">>},
          with_context \in BOOLEAN, auto \in BOOLEAN :
         cli = handle_debug_command(<<>>, given, with_context, auto)

\* history_data = get_recent_commands_with_outputs() if include_context else
\* the empty history
DebugHistory ==
    /\ cli.pc = "history"
    /\ cli' = [cli EXCEPT
                 !.history_data =
                     IF cli.args.include_context
                     THEN [commands |->
                             GetRecentCommands(log, outputs, DefaultLimit).commands,
                           has_outputs |->
                             GetRecentCommands(log, outputs, DefaultLimit).has_outputs]
                     ELSE @,
                 !.pc = "subject"]
    /\ UNCHANGED <<env, clock, seen, hist, term_output, pc, loc, log, tmp,
                   outputs, appended, count, captured, tail_ok, runs, once,
                   start, limit, rpc, result, read_lines, ran>>

\* Lines 32-61: the message of the automatic mode, the two early returns, the
\* notice "Analyzing error".
DebugSubject ==
    /\ cli.pc = "subject"
    /\ LET auto == cli.args.auto_analyse
           commands == cli.history_data.commands
           message == IF auto /\ commands # <<>>
                      THEN AutoMessage(cli.error_message, commands)
                      ELSE cli.error_message
       IN  IF auto /\ commands = <<>>
           THEN cli' = [cli EXCEPT !.printed = Append(@, NoHistoryNotice),
                                   !.pc = "done"]
           ELSE IF message = <<>> /\ ~auto
                THEN cli' = [cli EXCEPT !.printed = Append(@, UsageNotice),
                                        !.pc = "done"]
                ELSE cli' = [cli EXCEPT
                               !.error_message = message,
                               !.printed = IF message # <<>>
                                           THEN @ \o <<AnalyzingError>> \o message
                                           ELSE @,
                               !.pc = "analyse"]
    /\ UNCHANGED <<env, clock, seen, hist, term_output, pc, loc, log, tmp,
                   outputs, appended, count, captured, tail_ok, runs, once,
                   start, limit, rpc, result, read_lines, ran>>

\* Lines 65-76: the terminal context, the history added to it, the prompt.
DebugAnalyse ==
    /\ cli.pc = "analyse"
    /\ \E probed \in TermContexts :
         LET context ==
               IF cli.args.include_context /\ cli.history_data.commands # <<>>
               THEN [k \in DOMAIN probed \cup {"recent_commands"} |->
                       IF k = "recent_commands"
                       THEN cli.history_data.commands ELSE probed[k]]
               ELSE probed
         IN  cli' = [cli EXCEPT
                       !.context = context,
                       !.prompt = build_debug_prompt(cli.error_message, context,
                                                     cli.args.auto_analyse),
                       !.pc = "respond"]
    /\ UNCHANGED <<env, clock, seen, hist, term_output, pc, loc, log, tmp,
                   outputs, appended, count, captured, tail_ok, runs, once,
                   start, limit, rpc, result, read_lines, ran>>

\* Lines 79-87: the call of generate_ai_response with the prompt and the
\* context raises, the except prints.
DebugRespond ==
    /\ cli.pc = "respond"
    /\ cli' = [cli EXCEPT
                 !.passed = [prompt |-> cli.prompt, context |-> cli.context],
                 !.printed = @ \o <<AnalysisFailed, UnexpectedKeyword>>,
                 !.pc = "done"]
    /\ UNCHANGED <<env, clock, seen, hist, term_output, pc, loc, log, tmp,
                   outputs, appended, count, captured, tail_ok, runs, once,
                   start, limit, rpc, result, read_lines, ran>>

NextDebug == DebugHistory \/ DebugSubject \/ DebugAnalyse \/ DebugRespond

SpecDebug == InitDebug /\ [][NextDebug]_vars

\* ---- terminai ask: handle_ask_command step by step, and the AI provider.

\* What can happen to generate_ai_response: the backend answers with a
\* command, answers with a status other than 200, cannot be reached, answers
\* 200 with a payload that is not JSON, or no provider can be built (no API
\* key, unknown provider name).
AiEvents == {"answer", "status", "connection", "payload", "noprovider"}

\* generate_ai_response(prompt, context): get_ai_provider raises ValueError;
\* APIProvider.generate_response raises nothing, it returns the command or a
\* text that describes the failure.
AiOutcome(event) ==
    CASE event = "answer" -> [raised |-> FALSE, text |-> <<"ls -la">>]
      [] event = "status" ->
            [raised |-> FALSE,
             text |-> <<"Error: Failed to get response from API (HTTP ", "500", ")">>]
      [] event = "connection" ->
            [raised |-> FALSE, text |-> <<"Error: ", "Connection refused">>]
      [] event = "payload" ->
            [raised |-> FALSE,
             text |-> <<"Error parsing API response: ", "Expecting value">>]
      [] event = "noprovider" ->
            [raised |-> TRUE,
             text |-> <<"API key not provided and TERMINAI_API_KEY environment variable not set">>]

\* The messages handle_ask_command prints.
ProcessingQuery == "Processing query:"
SuggestedCommand == "Suggested command:"
ExecutingCommand == "Executing command..."
NotExecuted == "Command not executed"
AskFailed == "Error:"

Queries ==
    {<<"list files">>, <<"disk usage">>, <<"find big files">>, <<"undo commit">>}

\* def handle_ask_command(query): the handler entered by the command line
\* argv, after its first print.
handle_ask_command(argv, query) ==
    [pc |-> "think",
     argv |-> argv,
     query |-> query,
     context |-> <<>>,
     passed |-> <<>>,
     event |-> "none",
     response |-> <<>>,
     executed |-> <<>>,
     printed |-> <<ProcessingQuery>> \o query]

InitAsk ==
    /\ env = [sessions |-> {}, budget |-> 0, faults |-> FALSE, mode |-> "ask",
              denied |-> {}]
    /\ pc = [s \in Sessions |-> "idle"]
    /\ log = NoFile
    /\ outputs = <<>>
    /\ once = [log |-> NoFile, outputs |-> <<>>]
    /\ start = [log |-> NoFile, outputs |-> <<>>]
    /\ limit = DefaultLimit
    /\ Quiet
    /\ \E query \in Queries :
         cli = handle_ask_command(<<>>, query)

\* Lines 23-27: the terminal context and the call of generate_ai_response;
\* when it raises, the except of line 58 prints and the handler ends.
AskThink ==
    /\ cli.pc = "think"
    /\ \E probed \in TermContexts, event \in AiEvents :
         IF AiOutcome(event).raised
         THEN cli' = [cli EXCEPT
                        !.context = probed,
                        !.passed = [prompt |-> cli.query, context |-> probed],
                        !.event = event,
                        !.printed = @ \o <<AskFailed>> \o AiOutcome(event).text,
                        !.pc = "done"]
         ELSE cli' = [cli EXCEPT
                        !.context = probed,
                        !.passed = [prompt |-> cli.query, context |-> probed],
                        !.event = event,
                        !.response = AiOutcome(event).text,
                        !.pc = "suggest"]
    /\ UNCHANGED <<env, clock, seen, hist, term_output, pc, loc, log, tmp,
                   outputs, appended, count, captured, tail_ok, runs, once,
                   start, limit, rpc, result, read_lines, ran>>

\* Lines 30-31: whatever came back is shown as the suggested command.
AskSuggest ==
    /\ cli.pc = "suggest"
    /\ cli' = [cli EXCEPT !.printed = @ \o <<SuggestedCommand>> \o cli.response,
                          !.pc = "confirm"]
    /\ UNCHANGED <<env, clock, seen, hist, term_output, pc, loc, log, tmp,
                   outputs, appended, count, captured, tail_ok, runs, once,
                   start, limit, rpc, result, read_lines, ran>>

\* Lines 34-57: Confirm.ask("Run this command?"), then subprocess.run of the
\* response through the shell, or the notice that nothing was run.
AskConfirm ==
    /\ cli.pc = "confirm"
    /\ \E yes \in BOOLEAN :
         IF yes
         THEN cli' = [cli EXCEPT !.executed = cli.response,
                                 !.printed = Append(@, ExecutingCommand),
                                 !.pc = "done"]
         ELSE cli' = [cli EXCEPT !.printed = Append(@, NotExecuted),
                                 !.pc = "done"]
    /\ UNCHANGED <<env, clock, seen, hist, term_output, pc, loc, log, tmp,
                   outputs, appended, count, captured, tail_ok, runs, once,
                   start, limit, rpc, result, read_lines, ran>>

NextAsk == AskThink \/ AskSuggest \/ AskConfirm

SpecAsk == InitAsk /\ [][NextAsk]_vars

\* ---- terminai: the click commands of main.py in front of the handlers.

\* What the user can type: terminai ask QUERY, terminai debug
\* [ERROR_MESSAGE] [-c] [-a], terminai -debug. A field a command does not
\* take is empty or false.
Argv(command, query, error_message, context, auto) ==
    [command |-> command, query |-> query, error_message |-> error_message,
     context |-> context, auto |-> auto]

Argvs ==
    {Argv("ask", query, <<>>, FALSE, FALSE) : query \in Queries}
        \cup {Argv("debug", <<>>, given, context, auto) :
                 given \in {<<>>, <<"permission denied">>},
                 context \in BOOLEAN, auto \in BOOLEAN}
        \cup {Argv("-debug", <<>>, <<>>, FALSE, FALSE)}

\* handle_debug_command(None, True, auto_analyze=True): the handler has no
\* parameter of that name, the call raises TypeError.
UnexpectedAutoAnalyze == "got an unexpected keyword argument 'auto_analyze'"

InitMain ==
    /\ env = [sessions |-> {}, budget |-> 0, faults |-> FALSE, mode |-> "main",
              denied |-> {}]
    /\ pc = [s \in Sessions |-> "idle"]
    /\ log \in LogsOf({"ok", "failed"}, MaxLines)
    /\ outputs \in OutputsOf({<<"1">>})
    /\ once = [log |-> NoFile, outputs |-> <<>>]
    /\ start = [log |-> NoFile, outputs |-> <<>>]
    /\ limit = DefaultLimit
    /\ Quiet
    /\ \E argv \in Argvs : cli = [pc |-> "main", argv |-> argv]

\* The click command that argv names calls its handler: ask(query) calls
\* handle_ask_command(query); debug(error_message, context, auto) calls
\* handle_debug_command(error_message, context or auto); auto_debug() calls
\* the handler with a keyword it does not have and ends in the traceback.
Main ==
    /\ cli.pc = "main"
    /\ LET argv == cli.argv
       IN  cli' = CASE argv.command = "ask" ->
                         handle_ask_command(argv, argv.query)
                    [] argv.command = "debug" ->
                         handle_debug_command(argv, argv.error_message,
                                              argv.context \/ argv.auto, FALSE)
                    [] argv.command = "-debug" ->
                         [pc |-> "crashed", argv |-> argv, passed |-> <<>>,
                          printed |-> <<UnexpectedAutoAnalyze>>]
    /\ UNCHANGED <<env, clock, seen, hist, term_output, pc, loc, log, tmp,
                   outputs, appended, count, captured, tail_ok, runs, once,
                   start, limit, rpc, result, read_lines, ran>>

NextMain == Main \/ NextDebug \/ NextAsk

SpecMain == InitMain /\ [][NextMain]_vars

\* ---- a Recorder that may be killed at any step, and a Context Reader that
\* runs beside it, step by step.

\* What a tail killed while it copies leaves of the lines `kept`: some of
\* them, the last one possibly cut short.
CutFiles(kept) ==
    {File(SubSeq(kept, 1, k)) : k \in 0..(Len(kept) - 1)}
        \cup {File(Append(SubSeq(kept, 1, k - 1), Take(kept[k], 2))) :
                k \in 1..Len(kept)}

\* tail -n 5 commands.log > commands.log, where the temp file was meant: the
\* copy killed half way leaves the log cut.
KilledInPlace(f) ==
    {[log |-> cut, tmp |-> NoFile] :
       cut \in CutFiles(SubSeq(f.lines,
                               IF Len(f.lines) > RingSize
                               THEN Len(f.lines) - RingSize + 1 ELSE 1,
                               Len(f.lines)))}

\* The files a shell killed inside `tail ... > commands.log.tmp` leaves: the
\* log as it was, the temp file cut.
KilledInTail(f) ==
    {[log |-> f, tmp |-> cut] : cut \in CutFiles(TailN(f.lines, RingSize))}

\* The shell dies inside terminai_log_command_output: before the step at pc,
\* or inside it when the step is the tail.  No later step of the invocation
\* runs; the next prompt belongs to a new shell.
Crash(s) ==
    /\ env.mode = "shell"
    /\ pc[s] \in {"append", "tail", "mv", "blob", "gc"}
    /\ \/ UNCHANGED <<log, tmp>>
       \/ /\ pc[s] = "tail"
          /\ \E left \in KilledInTail(log) : log' = left.log /\ tmp' = left.tmp
    /\ pc' = [pc EXCEPT ![s] = "idle"]
    /\ loc' = [loc EXCEPT ![s] = NoLocals]
    /\ term_output' = [term_output EXCEPT ![s] = <<>>]
    /\ UNCHANGED <<env, clock, seen, hist, outputs, appended, count, captured,
                   tail_ok, runs, once, start, limit, rpc, result, read_lines, cli, ran>>

\* if cmd_log_path.exists():
ReaderExists ==
    /\ env.mode = "shell"
    /\ rpc = "call"
    /\ IF log.present
       THEN rpc' = "open" /\ UNCHANGED result
       ELSE rpc' = "returned" /\ result' = NoResult
    /\ UNCHANGED <<env, clock, seen, hist, term_output, pc, loc, log, tmp,
                   outputs, appended, count, captured, tail_ok, runs, once,
                   start, limit, read_lines, cli, ran>>

\* The reader without its outer try: the exception reaches the caller.
Uncaught == [rpc |-> "raised", result |-> NoResult]

\* except Exception as e: print "Error reading command history", return result
Caught == [rpc |-> "returned", result |-> [NoResult EXCEPT !.error = TRUE]]

\* with open(cmd_log_path, 'r') as f: lines = f.readlines().  open() raises
\* FileNotFoundError when the file is gone.
ReaderOpen ==
    /\ rpc = "open"
    /\ IF log.present
       THEN rpc' = "loop" /\ read_lines' = log.lines /\ UNCHANGED result
       ELSE /\ rpc' = Caught.rpc
            /\ result' = Caught.result
            /\ UNCHANGED read_lines
    /\ UNCHANGED <<env, clock, seen, hist, term_output, pc, loc, log, tmp,
                   outputs, appended, count, captured, tail_ok, runs, once,
                   start, limit, cli, ran>>

\* The two loops over `lines` and the return.
ReaderLoops ==
    /\ rpc = "loop"
    /\ result' = GetRecentCommands(File(read_lines), outputs, limit)
    /\ rpc' = "returned"
    /\ UNCHANGED <<env, clock, seen, hist, term_output, pc, loc, log, tmp,
                   outputs, appended, count, captured, tail_ok, runs, once,
                   start, limit, read_lines, cli, ran>>

Reader == ReaderExists \/ ReaderOpen \/ ReaderLoops

\* The state five completed invocations of one session leave: the ring is
\* full of plain commands, no output was captured.
FullRing ==
    [i \in 1..RingSize |->
        [timestamp |-> Stamp(i - 1), exit_code |-> ToString(CaptureStatus),
         cmd_id |-> ToString(i), cmd |-> PlainText]]

InitCrash ==
    /\ env = [sessions |-> {1}, budget |-> RingSize + MaxCrashCmds,
              faults |-> FALSE, mode |-> "shell",
              denied |-> {}]
    /\ pc = [s \in Sessions |-> "idle"]
    /\ log = File([i \in 1..RingSize |-> Format(FullRing[i])])
    /\ appended = FullRing
    /\ count = RingSize
    /\ ran = TRUE
    /\ clock = RingSize
    /\ seen = [s \in Sessions |-> IF s = 1 THEN RingSize ELSE 0]
    /\ hist = [s \in Sessions |-> IF s = 1 THEN PlainText ELSE <<>>]
    /\ term_output = [s \in Sessions |-> <<>>]
    /\ loc = [s \in Sessions |-> NoLocals]
    /\ tmp = NoFile
    /\ outputs = <<>>
    /\ captured = {}
    /\ tail_ok = [s \in Sessions |-> TRUE]
    /\ runs = 0
    /\ once = [log |-> NoFile, outputs |-> <<>>]
    /\ start = [log |-> NoFile, outputs |-> <<>>]
    /\ limit = DefaultLimit
    /\ rpc = "call"
    /\ result = NoResult
    /\ read_lines = <<>>
    /\ cli = NoCli

NextCrash == Logger \/ Crash(1) \/ Reader

SpecCrash == InitCrash /\ [][NextCrash]_vars

\* ---- a Recorder and a Context Reader, and a user who removes the log.

\* rm ~/.terminai/commands.log
RemoveLog ==
    /\ env.mode = "shell"
    /\ log.present
    /\ log' = NoFile
    /\ UNCHANGED <<env, clock, seen, hist, term_output, pc, loc, tmp, outputs,
                   appended, count, captured, tail_ok, runs, once, start, limit,
                   rpc, result, read_lines, cli, ran>>

NextVanish == Logger \/ RemoveLog \/ Reader

SpecVanish == InitCrash /\ [][NextVanish]_vars

\* ------------------------------------------------------------ properties

AllIdle == \A s \in env.sessions : pc[s] = "idle"

Lines(records) == [i \in 1..Len(records) |-> Format(records[i])]

\* C1: in a single session, once the Recorder invocation of the M-th logged
\* command has completed, M > N, commands.log holds exactly the N records
\* appended last, oldest first and newest last.
C1_RingHoldsLastN ==
    (AllIdle /\ count > RingSize) =>
        /\ Len(log.lines) = RingSize
        /\ log.lines = Lines(appended)

\* Seven commands were logged and the log holds five lines.
C1_Witness ==
    /\ AllIdle
    /\ count = RingSize + 2
    /\ Len(log.lines) = RingSize

\* The command ids of the records of a log file.
RecordIds(f) ==
    {Split(f.lines[i], MaxSplit)[3] :
       i \in {j \in 1..Len(f.lines) : Len(Split(f.lines[j], MaxSplit)) >= MinParts}}

\* C2: after every completed Recorder invocation an output file exists if and
\* only if its id is the command_id of a record of commands.log whose output
\* was captured.
C2_BlobIffRetained ==
    AllIdle => DOMAIN outputs = RecordIds(log) \cap captured

\* C8: every record the Recorder appended and commands.log retains is read
\* back by the Context Reader as an entry with the same timestamp, exit_code,
\* command_id and command_text.
C8_RoundTrip ==
    \A i \in 1..Len(appended) :
        Format(appended[i]) \in {log.lines[j] : j \in 1..Len(log.lines)} =>
            \E k \in 1..Len(GetRecentCommands(log, outputs, DefaultLimit).commands) :
                LET e == GetRecentCommands(log, outputs, DefaultLimit).commands[k]
                IN  /\ e.timestamp = <<appended[i].timestamp>>
                    /\ ToString(e.exit_code) = appended[i].exit_code
                    /\ e.command = appended[i].cmd
                    /\ "cmd_id" \in DOMAIN e
                    /\ e.cmd_id = <<appended[i].cmd_id>>

LineSet(f) == {f.lines[i] : i \in 1..Len(f.lines)}

AppendedIds == {FileId(appended[i].cmd_id) : i \in 1..Len(appended)}

\* C3: when the Recorder invocations of two sessions interleave, then after
\* all have completed every appended record is in commands.log unless at
\* least N records were appended after it.
C3_NoLostUpdate ==
    AllIdle => \A i \in 1..Len(appended) : Format(appended[i]) \in LineSet(log)

\* C4: under every interleaving of two sessions, the output blob written for
\* one of the N records appended last is never deleted.
C4_GcSparesRecent ==
    \A fid \in captured \cap AppendedIds : fid \in DOMAIN outputs

\* The number of separators of a line.
Pipes(line) == Cardinality({i \in 1..Len(line) : line[i] = Pipe})

\* A line with four pipe-separated fields, and one whose exit_code field is
\* an integer as well.
FourFields(line) == Pipes(line) >= 3
WellFormed(line) ==
    FourFields(line) /\ Split(Strip(line), MaxSplit)[2] \in {<<"0">>, <<"1">>}

\* What a returned entry shows of its line.
Shown(e) == [timestamp |-> e.timestamp, command |-> e.command,
             exit_code |-> ToString(e.exit_code)]
ShownOf(line) ==
    [timestamp |-> Split(Strip(line), MaxSplit)[1],
     command |-> Split(Strip(line), MaxSplit)[4],
     exit_code |-> Split(Strip(line), MaxSplit)[2][1]]

\* The well-formed lines of a file, newest first.
RECURSIVE NewestFirst(_)
NewestFirst(lines) ==
    IF lines = <<>> THEN <<>>
    ELSE IF WellFormed(lines[Len(lines)])
         THEN <<lines[Len(lines)]>> \o NewestFirst(SubSeq(lines, 1, Len(lines) - 1))
         ELSE NewestFirst(SubSeq(lines, 1, Len(lines) - 1))

NoParseError(f) ==
    \A i \in 1..Len(f.lines) : FourFields(f.lines[i]) => WellFormed(f.lines[i])

Returned == env.mode = "read" /\ rpc = "returned"

\* C5: for every log and every limit >= 0 the Context Reader returns the
\* min(limit, k) newest of the k well-formed records, most recent first
\* (stated on logs every four-field line of which is well formed).
C5_NewestUpToLimit ==
    (Returned /\ NoParseError(log)) =>
        /\ Len(result.commands) = Len(Take(NewestFirst(log.lines), limit))
        /\ \A k \in 1..Len(result.commands) :
             Shown(result.commands[k]) = ShownOf(NewestFirst(log.lines)[k])

C7_BadExitCostsOneLine ==
    (Returned /\ limit >= Len(log.lines)) =>
        Len(result.commands) =
            Cardinality({i \in 1..Len(log.lines) : WellFormed(log.lines[i])})

Rotated == env.mode = "rotate" /\ pc[1] = "idle"

\* C9: for every content of commands.log, the rotation run twice in
\* succession leaves the file content and the set of output blobs that the
\* rotation run once leaves.
C9_RotationIdempotent ==
    (Rotated /\ runs = 1) => (log = once.log /\ outputs = once.outputs)

\* The second rotation of a log of more than N lines has completed; the first
\* one trimmed the log and deleted an output blob.
C9_Witness ==
    /\ Rotated
    /\ runs = 1
    /\ Len(start.log.lines) > RingSize
    /\ Len(log.lines) = RingSize
    /\ DOMAIN once.outputs # DOMAIN start.outputs
    /\ outputs = once.outputs

\* The command text of a line of commands.log: what follows its third
\* separator.
RECURSIVE AfterPipes(_, _)
AfterPipes(line, n) ==
    IF n = 0 THEN line
    ELSE IF line = <<>> THEN <<>>
         ELSE AfterPipes(Tail(line), IF Head(line) = Pipe THEN n - 1 ELSE n)

ToolNames == {"terminai", "terminai-dev"}

\* C11: in every reachable state, whatever the shell executed, no record of
\* commands.log has a command text that begins with the tool's own name.
C11_SelfFiltered ==
    \A i \in 1..Len(log.lines) :
        FourFields(log.lines[i]) =>
            \/ AfterPipes(log.lines[i], 3) = <<>>
            \/ AfterPipes(log.lines[i], 3)[1] \notin ToolNames

\* A command of the tool, typed behind a blank, was the last of a session that
\* logged others, and the Recorder has returned.
C11_Witness ==
    /\ env.mode = "shell"
    /\ AllIdle
    /\ hist[1] = SpacedSelfText
    /\ Len(log.lines) >= 2

\* The records a log file holds.
Records(f) == Cardinality({i \in 1..Len(f.lines) : FourFields(f.lines[i])})

\* The rotation step of the session's current invocation has completed, or
\* the session is between two invocations.
RotationDone(s) == pc[s] \in {"blob", "gc", "idle"}

\* C12: in every state of a single session's Recorder invocations
\* commands.log holds at most N + 1 records, and at most N in every state
\* after the rotation step of the invocation has completed.
C12_AtMostOneExtra ==
    /\ Records(log) <= RingSize + 1
    /\ RotationDone(1) => Records(log) <= RingSize

\* The append of a sixth record has happened and its rotation has not.
C12_Witness ==
    /\ env.mode = "shell"
    /\ pc[1] = "tail"
    /\ Records(log) = RingSize + 1

\* The records appended last are the last lines of the file.
EndsWithAppended(ls) ==
    /\ Len(ls) >= Len(appended)
    /\ SubSeq(ls, Len(ls) - Len(appended) + 1, Len(ls)) = Lines(appended)

\* C13: whenever a Context Reader reads commands.log, during a Recorder
\* invocation or after one that was killed at any of its steps, it finds
\* whole records only, the records appended last among them: the content
\* before the rotation or the one after it, never a cut file.
C13_ReaderSeesWholeLog ==
    /\ EndsWithAppended(log.lines)
    /\ \A i \in 1..Len(log.lines) : FourFields(log.lines[i])
    /\ rpc \in {"loop", "returned"} =>
         \A i \in 1..Len(read_lines) : FourFields(read_lines[i])

\* The shell was killed inside tail, which left a cut temp file, and the
\* Reader has read the six records of the log since.
C13_Witness ==
    /\ pc[1] = "idle"
    /\ tmp.present
    /\ tmp.lines # <<>>
    /\ ~FourFields(tmp.lines[Len(tmp.lines)])
    /\ rpc = "returned"
    /\ Len(read_lines) = RingSize + 1
    /\ log.lines = read_lines

\* The Context Reader has come to its end.
ReaderEnded == rpc \notin {"call", "open", "loop"}

\* C14: when commands.log does not exist, or is gone or empty at the moment
\* the Reader opens it, the Reader returns an empty history with has_outputs
\* false and raises nothing to its caller.
C14_NoLogNoHistory ==
    (ReaderEnded /\ read_lines = <<>>) =>
        /\ rpc = "returned"
        /\ result.commands = <<>>
        /\ ~result.has_outputs

\* The log was there when the Reader tested exists() and gone when it opened
\* the file; the Reader has returned.
C14_Witness ==
    /\ rpc = "returned"
    /\ read_lines = <<>>
    /\ result.error
    /\ result.commands = <<>>

\* The file id a line of commands.log names.
IdOf(line) == Split(Strip(line), MaxSplit)[3]

\* C15: in every result of the Context Reader has_outputs is true if and only
\* if some returned record carries an output field; a record whose output
\* file is absent or cannot be read is still returned, without an output
\* field.
C15_FlagIffOutput ==
    Returned =>
        /\ result.has_outputs <=>
             \E k \in 1..Len(result.commands) :
                 "output" \in DOMAIN result.commands[k]
        /\ limit >= Len(log.lines) =>
             /\ Len(result.commands) = Len(NewestFirst(log.lines))
             /\ \A k \in 1..Len(result.commands) :
                  (\/ IdOf(NewestFirst(log.lines)[k]) \notin DOMAIN outputs
                   \/ IdOf(NewestFirst(log.lines)[k]) \in env.denied)
                     => "output" \notin DOMAIN result.commands[k]

\* Two records were returned: the output of one was attached, the output file
\* of the other exists and could not be read.
C15_Witness ==
    /\ Returned
    /\ Len(result.commands) = 2
    /\ result.has_outputs
    /\ "output" \notin DOMAIN result.commands[1]
    /\ IdOf(log.lines[2]) \in DOMAIN outputs \cap env.denied

Built == cli.pc = "built"

\* The position of the first token `tok` of a text, 0 when it has none.
IndexOf(text, tok) ==
    IF \E i \in 1..Len(text) : text[i] = tok
    THEN CHOOSE i \in 1..Len(text) :
             text[i] = tok /\ \A j \in 1..(i - 1) : text[j] # tok
    ELSE 0

\* What the prompt shows between the fences of its first output block.
Fenced(prompt) ==
    SubSeq(prompt, IndexOf(prompt, OutputOpen) + 1,
           IndexOf(prompt, OutputClose) - 1)

\* The outputs of the entries handed to build_debug_prompt.
GivenOutputs ==
    {cli.context.recent_commands[k].output :
       k \in {j \in 1..Len(cli.context.recent_commands) :
                "output" \in DOMAIN cli.context.recent_commands[j]}}

\* C16: an output longer than 500 characters is rendered as exactly its first
\* 500 characters followed by the marker '... (truncated)'; an output of 500
\* characters or fewer is rendered whole and without the marker.
C16_TruncatedAt500 ==
    (Built /\ env.mode = "prompt") =>
        \A o \in GivenOutputs :
            o # <<>> =>
              /\ IndexOf(cli.prompt, OutputOpen) > 0
              /\ Fenced(cli.prompt) =
                   IF Len(o) > 500
                   THEN SubSeq(o, 1, 500) \o <<"... (truncated)">>
                   ELSE o

\* The prompt was built for an output of 501 characters and ends its output
\* block with the marker.
C16_Witness ==
    /\ Built
    /\ \E o \in GivenOutputs : Len(o) = 501
    /\ Len(Fenced(cli.prompt)) = 501
    /\ Fenced(cli.prompt)[501] = "... (truncated)"

\* The most recent entry of a history that has a non-zero exit code; the
\* history is newest first.
MostRecentFailed(commands) ==
    commands[CHOOSE k \in 1..Len(commands) :
               /\ commands[k].exit_code # 0
               /\ \A j \in 1..(k - 1) : commands[j].exit_code = 0]

AnyFailed(commands) == \E k \in 1..Len(commands) : commands[k].exit_code # 0

\* C17: in automatic mode with no error given and a non-empty history the
\* subject is 'Command failed: <command_text>' of the most recent record with
\* a non-zero exit code and the prompt is framed around that subject; without
\* such a record the subject is the general review.
C17_AutoSubject ==
    (/\ env.mode = "debug"
     /\ cli.pc \in {"respond", "done"}
     /\ cli.args.auto_analyse
     /\ cli.args.error_message = <<>>
     /\ cli.history_data.commands # <<>>)
        => IF AnyFailed(cli.history_data.commands)
           THEN /\ cli.error_message =
                     <<"Command failed: ">>
                        \o MostRecentFailed(cli.history_data.commands).command
                /\ Contains(cli.prompt, cli.error_message)
           ELSE cli.error_message = <<"Explain what these recent commands are doing">>

\* The label build_debug_prompt is to print before a system field.
LabelOf(field) ==
    CASE field = "os" -> "\n- Operating System: "
      [] field = "shell" -> "\n- Shell: "
      [] field = "current_dir" -> "\n- Current Directory: "

\* C18: for every combination of present and absent fields among os, shell
\* and current_dir, the prompt has a line for each field that is present and
\* none for a field that is absent; a present current_dir is rendered also
\* when os and shell are absent.
C18_SystemBlockPerField ==
    (Built /\ env.mode = "prompt") =>
        \A f \in {"os", "shell", "current_dir"} :
            (f \in DOMAIN cli.context) <=>
                /\ IndexOf(cli.prompt, LabelOf(f)) > 0
                /\ f \in DOMAIN cli.context
                /\ Contains(cli.prompt, <<LabelOf(f)>> \o cli.context[f])

\* The history handed to build_debug_prompt, empty when there is none.
GivenHistory ==
    IF "recent_commands" \in DOMAIN cli.context
    THEN cli.context.recent_commands ELSE <<>>

\* The line the prompt is to show for entry k of the history.
ShownLine(k, e) ==
    <<ToString(k), ". [">> \o e.timestamp \o <<"] '">> \o e.command \o <<"'", " ">>
    \o (IF e.exit_code = 0
        THEN <<"[SUCCESS]">>
        ELSE <<"[FAILED] (exit code: ", ToString(e.exit_code), ")">>)
    \o <<"\n">>

\* Where the line numbered k starts in the prompt, 0 when it has none.
LineStart(prompt, k) ==
    IF \E i \in 1..(Len(prompt) - 1) : prompt[i] = ToString(k) /\ prompt[i + 1] = ". ["
    THEN CHOOSE i \in 1..(Len(prompt) - 1) :
             prompt[i] = ToString(k) /\ prompt[i + 1] = ". ["
    ELSE 0

Occurrences(text, tok) == Cardinality({i \in 1..Len(text) : text[i] = tok})

\* C19: the history is rendered as lines numbered 1..k in the order given,
\* each with its number, timestamp and command text, with [SUCCESS] exactly
\* when the exit code is 0 and [FAILED] with the exit code exactly when it is
\* not.
C19_NumberedHistory ==
    (Built /\ env.mode = "prompt") =>
        /\ Occurrences(cli.prompt, ". [") = Len(GivenHistory)
        /\ \A k \in 1..Len(GivenHistory) :
             /\ LineStart(cli.prompt, k) > 0
             /\ SubSeq(cli.prompt, LineStart(cli.prompt, k),
                       LineStart(cli.prompt, k)
                         + Len(ShownLine(k, GivenHistory[k])) - 1)
                  = ShownLine(k, GivenHistory[k])
             /\ k > 1 => LineStart(cli.prompt, k - 1) < LineStart(cli.prompt, k)
        /\ Occurrences(cli.prompt, "[SUCCESS]") =
             Cardinality({k \in 1..Len(GivenHistory) : GivenHistory[k].exit_code = 0})

\* A history of three entries was rendered: the newest succeeded, the second
\* failed with exit code 2.
C19_Witness ==
    /\ Built
    /\ env.mode = "prompt"
    /\ Len(GivenHistory) = 3
    /\ GivenHistory[1].exit_code = 0
    /\ GivenHistory[2].exit_code = 2
    /\ LineStart(cli.prompt, 3) > LineStart(cli.prompt, 2)
    /\ Occurrences(cli.prompt, "[SUCCESS]") >= 1

\* The AI collaborator failed: a status other than 200, no connection, or a
\* payload that cannot be parsed.
AiFailed == env.mode = "ask" /\ cli.event \in {"status", "connection", "payload"}

\* C20: when the AI collaborator fails, the handler reports the failure as
\* an error message and aborts: the failure text is not presented as a
\* suggested command, is not offered for execution and is not run.
C20_AiFailureAborts ==
    AiFailed =>
        /\ Occurrences(cli.printed, "Suggested command:") = 0
        /\ cli.pc # "confirm"
        /\ cli.executed = <<>>
        /\ cli.pc = "done" => Occurrences(cli.printed, "Error:") = 1

\* The command lines documented as automatic analysis: terminai debug -a
\* without an error message, and the shortcut terminai -debug.
AutomaticEntry(argv) ==
    \/ argv.command = "-debug"
    \/ argv.command = "debug" /\ argv.auto /\ argv.error_message = <<>>

\* C21: once the click command of an automatic-analysis command line has made
\* its call, handle_debug_command runs in automatic-analysis mode with the
\* history included: no traceback, auto_analyse and include_context both true.
C21_AutoEntryReachesAutoMode ==
    (env.mode = "main" /\ cli.pc # "main" /\ AutomaticEntry(cli.argv))
        => /\ cli.pc # "crashed"
           /\ cli.args.include_context
           /\ cli.args.auto_analyse

\* The command lines without the --context flag whose command reaches a
\* handler: every ask, and debug without -c.
WithoutContextFlag(argv) ==
    \/ argv.command = "ask"
    \/ argv.command = "debug" /\ ~argv.context

\* The handler has made its call of generate_ai_response.
HasPassed == cli.pc \notin {"main", "crashed"} /\ "prompt" \in DOMAIN cli.passed

C23_IdsNeverShared ==
    /\ \A i, j \in 1..Len(log.lines) :
         (i # j /\ FourFields(log.lines[i]) /\ FourFields(log.lines[j]))
             => Split(log.lines[i], MaxSplit)[3] # Split(log.lines[j], MaxSplit)[3]
    /\ \A i, j \in 1..Len(appended) :
         i # j => appended[i].cmd_id # appended[j].cmd_id

\* C24: the log reader of core/context.py returns one entry for every line
\* of commands.log that has four fields, in the order of the file, whatever
\* the last line is.
C24_EveryLineOneRecord ==
    (env.mode = "context" /\ rpc = "returned" /\ log.present)
        => Len(result.commands) = Records(log)

\* C25: the Recorder appends one record per executed command: a prompt cycle
\* of the session logs a record if and only if the user ran a command in it
\* that is not one of this tool, so an empty Enter appends nothing and the
\* records appended are as many as the commands run.
C25_OneRecordPerCommand ==
    [][(env.mode = "shell" /\ env.sessions = {1} /\ pc[1] = "idle") =>
         /\ count' \in {count, count + 1}
         /\ count' = count + 1 <=> ran'
         /\ pc'[1] = "append" <=> ran']_vars

\* A directed invocation of the handler has run to its end: an error message
\* was given and the automatic mode is off.
DirectedDone ==
    /\ env.mode = "debug"
    /\ cli.pc = "done"
    /\ ~cli.args.auto_analyse
    /\ cli.args.error_message # <<>>

\* C26: a directed debug invocation builds the prompt, passes it to
\* generate_ai_response and ends by displaying the analysis under "Terminal
\* Analysis:", not by the notice "Error during analysis:".
C26_DirectedDebugDisplays ==
    DirectedDone
        => /\ cli.prompt # <<>>
           /\ cli.passed = [prompt |-> cli.prompt, context |-> cli.context]
           /\ Occurrences(cli.printed, AnalysisTitle) = 1
           /\ Occurrences(cli.printed, AnalysisFailed) = 0

\* C27: the clean-up decides on the command_id fields alone: after a
\* completed Recorder invocation every output file that is left carries the
\* command_id of a record of commands.log, whatever the command texts hold.
C27_GcByIdFieldOnly ==
    (env.mode = "shell" /\ AllIdle) => DOMAIN outputs \subseteq RecordIds(log)

\* The order of the steps of one Recorder invocation, as pairs of positions.
StepOrder ==
    {<<"idle", "append">>, <<"append", "tail">>, <<"tail", "mv">>,
     <<"mv", "blob">>, <<"blob", "gc">>, <<"gc", "idle">>}

\* C28: within one invocation of a single session the steps run in the order
\* append, rotate, write blob, garbage-collect: commands.log changes only in
\* the append and in the move of the rotation, an output file appears only in
\* the blob step and is the one of the record just appended, files disappear
\* only in the clean-up, and the clean-up never removes that file.
C28_StepsInOrder ==
    [][env.mode = "shell" =>
         /\ pc'[1] # pc[1] => <<pc[1], pc'[1]>> \in StepOrder
         /\ log' # log => pc[1] \in {"append", "mv"}
         /\ log' # log /\ pc[1] = "append" =>
                log'.lines = Append(log.lines, Format(loc[1]))
         /\ DOMAIN outputs' \ DOMAIN outputs # {} =>
                /\ pc[1] = "blob"
                /\ DOMAIN outputs' \ DOMAIN outputs = {FileId(loc[1].cmd_id)}
         /\ DOMAIN outputs \ DOMAIN outputs' # {} => pc[1] = "gc"
         /\ pc[1] = "gc" /\ FileId(loc[1].cmd_id) \in DOMAIN outputs =>
                FileId(loc[1].cmd_id) \in DOMAIN outputs']_vars

\* An invocation has completed whose clean-up removed the file of an evicted
\* record and left the file written for the record appended last.
C28_Witness ==
    /\ env.mode = "shell"
    /\ env.sessions = {1}
    /\ AllIdle
    /\ appended # <<>>
    /\ FileId(appended[Len(appended)].cmd_id) \in DOMAIN outputs
    /\ captured \ DOMAIN outputs # {}

\* A history entry that is a command of the tool, leading blanks aside.
SelfEntry(entry) == LStrip(entry) # <<>> /\ Head(LStrip(entry)) \in ToolNames

\* C29: a Recorder invocation for a command of the tool leaves the persisted
\* state as it was: commands.log is neither appended to nor rotated, the temp
\* file is not written, no output file is written and none is deleted, and
\* the invocation is over with that step.
C29_SelfInvocationIsFrame ==
    [][(env.mode = "shell" /\ pc[1] = "idle" /\ SelfEntry(hist'[1])) =>
         /\ pc'[1] = "idle"
         /\ log' = log
         /\ tmp' = tmp
         /\ outputs' = outputs]_vars

\* A command of the tool was the last of a session whose log is full and
\* whose output store is not empty, and the Recorder has returned.
C29_Witness ==
    /\ env.mode = "shell"
    /\ AllIdle
    /\ hist[1] = SelfText
    /\ Len(log.lines) = RingSize
    /\ DOMAIN outputs # {}

\* C10: when the tail step of the rotation fails, commands.log keeps its
\* previous content: a log that held records is not replaced.
C10_FailedTailKeepsLog ==
    (/\ env.mode = "rotate"
     /\ runs = 0
     /\ pc[1] \in {"blob", "gc", "idle"}
     /\ ~tail_ok[1]
     /\ \E i \in 1..Len(start.log.lines) : FourFields(start.log.lines[i]))
        => log = start.log

====
